---- MODULE Spec2Model ----
(***************************************************************************)
(* A model of the quirrel-postgres client (src/quirrel/src/client/index.ts)*)
(* against the pg_cron job table (src/quirrel/src/prisma/schema.prisma):   *)
(* the schedule normalizer, the registry operations of QuirrelClient and   *)
(* the delivery responder respondTo.                                       *)
(***************************************************************************)
EXTENDS Integers, Sequences, FiniteSets, TLC

\* ------------------------------------------------------------------ bounds

\* Job ids (the autoincrement column jobid) handed out by the model.
MaxJobId == 3
\* Readings of Date.now() range over 0..MaxTime.
MaxTime == 1
\* Longest duration string drawn as an input.
MaxDurLen == 2

\* --------------------------------------------------------------- constants

\* `cron-job:${route}`.substring(0, 64) and jobname @db.VarChar(64)
NameLimit == 64
\* retry: z.array(...).min(1).max(10)
MaxRetryLen == 10

\* A number that may be undefined (number | undefined).
NoNum == [def |-> FALSE, n |-> 0]
Val(n) == [def |-> TRUE, n |-> n]

\* ------------------------------------------------------- duration strings

\* The characters duration strings are drawn from.
DurChars == {"-", "1", "s", "m", " "}

DigitChars == {"0", "1"}

DigitVal(ch) == IF ch = "1" THEN 1 ELSE 0

\* The units of the vercelMs grammar that DurChars can spell, with the
\* factor ms() applies to each; the empty unit means milliseconds.
UnitFactor(u) ==
  CASE u = <<>> -> 1
    [] u = <<"m", "s">> -> 1
    [] u = <<"s">> -> 1000
    [] u = <<"m">> -> 60000
    [] OTHER -> 0

UnitSeqs == {<<>>, <<"m", "s">>, <<"s">>, <<"m">>}

RECURSIVE DurStringsOfLen(_)
DurStringsOfLen(n) ==
  IF n = 0 THEN {<<>>}
  ELSE {Append(s, ch) : s \in DurStringsOfLen(n - 1), ch \in DurChars}

DurStrings == UNION {DurStringsOfLen(n) : n \in 0..MaxDurLen}

AllIn(s, from, to, set) == \A i \in from..to : s[i] \in set

\* A split of s by the regex of vercelMs:
\*   ^(-?(?:\d+)?\.?\d+) *(unit)?$
\* neg: a leading "-"; digits at d1..d2 (at least one); blanks; then a unit.
DurSplits(s) ==
  {sp \in [neg : BOOLEAN, d2 : 0..Len(s), u1 : 1..(Len(s) + 1)] :
     LET d1 == IF sp.neg THEN 2 ELSE 1 IN
       /\ sp.neg => (Len(s) >= 1 /\ s[1] = "-")
       /\ sp.d2 >= d1
       /\ sp.u1 > sp.d2
       /\ AllIn(s, d1, sp.d2, DigitChars)
       /\ AllIn(s, sp.d2 + 1, sp.u1 - 1, {" "})
       /\ SubSeq(s, sp.u1, Len(s)) \in UnitSeqs}

vercelMs(s) == DurSplits(s) # {}

RECURSIVE DigitsValue(_)
DigitsValue(ds) ==
  IF ds = <<>> THEN 0
  ELSE 10 * DigitsValue(SubSeq(ds, 1, Len(ds) - 1)) + DigitVal(ds[Len(ds)])

\* ms(value) of the `ms` package for a string: the number times the unit's
\* factor; undefined when the string does not match.
ms(s) ==
  IF ~vercelMs(s) THEN NoNum
  ELSE LET sp == CHOOSE x \in DurSplits(s) : TRUE
           d1 == IF sp.neg THEN 2 ELSE 1
           n  == DigitsValue(SubSeq(s, d1, sp.d2))
           f  == UnitFactor(SubSeq(s, sp.u1, Len(s)))
       IN Val((IF sp.neg THEN 0 - n ELSE n) * f)

\* A duration value as the caller writes it: absent, a number or a string.
Absent == [t |-> "absent", n |-> 0, s |-> <<>>]
Num(n) == [t |-> "num", n |-> n, s |-> <<>>]
Str(s) == [t |-> "str", n |-> 0, s |-> s]

\* timeDuration: z.union([z.number().min(1), vercelMs])
timeDuration(v) ==
  \/ v.t = "num" /\ v.n >= 1
  \/ v.t = "str" /\ vercelMs(v.s)

\* parseDuration: falsy values (undefined, 0, "") give undefined, a string
\* goes through ms(), a number is returned as it is.
parseDuration(v) ==
  IF v.t = "absent" \/ (v.t = "num" /\ v.n = 0) \/ (v.t = "str" /\ v.s = <<>>)
  THEN NoNum
  ELSE IF v.t = "str" THEN ms(v.s) ELSE Val(v.n)

\* runAtToDelay: +value - Date.now()
runAtToDelay(value, now) == Val(value - now)

\* ---------------------------------------------------------------- values

\* JavaScript values that travel as payloads and bodies.  A string is a
\* plain text, the EnhancedJSON text of a payload, or a ciphertext of such
\* a text under a secret.
Undef == [k |-> "undefined", form |-> "", v |-> "", key |-> ""]
Null == [k |-> "null", form |-> "", v |-> "", key |-> ""]
NumberValue == [k |-> "number", form |-> "", v |-> "7", key |-> ""]
Obj(name) == [k |-> "object", form |-> "", v |-> name, key |-> ""]
Text(txt) == [k |-> "string", form |-> "text", v |-> txt, key |-> ""]
JsonText(name) == [k |-> "string", form |-> "json", v |-> name, key |-> ""]
Cipher(secret, name) == [k |-> "string", form |-> "enc", v |-> name, key |-> secret]

EmptyObj == Obj("{}")
EmptyString == Text("")

\* EnhancedJSON.stringify / EnhancedJSON.parse (./enhanced-json): the text
\* that encodes a value, and back; a text that encodes nothing does not parse.
EnhancedJSONstringify(val) == JsonText(val.v)

EnhancedJSONparse(str) ==
  IF str.k = "string" /\ str.form = "json"
  THEN [ok |-> TRUE, value |-> Obj(str.v)]
  ELSE [ok |-> FALSE, value |-> Undef]

\* getEncryptor handing the encryptor the active secret alone.
getEncryptorActiveOnly(encryptionSecret, oldSecrets) ==
  IF encryptionSecret = ""
  THEN [on |-> FALSE, active |-> "", keys |-> <<>>]
  ELSE [on |-> TRUE, active |-> encryptionSecret, keys |-> <<encryptionSecret>>]

\* getEncryptor: no encryptor without a secret; otherwise the active secret
\* and the list of secrets tried for decryption, the active one first.
NoSecret == ""
getEncryptor(encryptionSecret, oldSecrets) ==
  IF encryptionSecret = NoSecret
  THEN [on |-> FALSE, active |-> NoSecret, keys |-> <<>>]
  ELSE [on |-> TRUE, active |-> encryptionSecret,
        keys |-> <<encryptionSecret>> \o oldSecrets]

\* Encryptor.encrypt / Encryptor.decrypt of secure-e2ee.
Encrypt(encryptor, str) == Cipher(encryptor.active, str.v)

Decrypt(encryptor, str) ==
  IF str.form = "enc" /\ \E i \in 1..Len(encryptor.keys) : encryptor.keys[i] = str.key
  THEN [ok |-> TRUE, value |-> JsonText(str.v)]
  ELSE [ok |-> FALSE, value |-> Undef]

\* --------------------------------------------------------------- options

\* Cron expressions are sequences of fields.
CronEveryMinute == <<"*", "*", "*", "*", "*">>
CronHourly == <<"0", "*", "*", "*", "*">>
CronThreeFields == <<"*", "*", "*">>
CronBadField == <<"x", "*", "*", "*", "*">>

\* isValidRegex (../shared/is-valid-regex), the refinement of `cron`: a
\* well-formed cron expression has five fields.
isValidRegex(expr) == Len(expr) = 5 /\ \A i \in 1..Len(expr) : expr[i] \in {"*", "0"}

NoCron == [given |-> FALSE, expr |-> <<>>]
CronOf(expr) == [given |-> TRUE, expr |-> expr]

NoTimes == [given |-> FALSE, n |-> 0]
Times(n) == [given |-> TRUE, n |-> n]

NoRepeat == [given |-> FALSE, every |-> Absent, times |-> NoTimes, cron |-> NoCron]
Repeat(every, times, cronExpr) ==
  [given |-> TRUE, every |-> every, times |-> times, cron |-> cronExpr]

NoRetry == [given |-> FALSE, list |-> <<>>]
Retry(list) == [given |-> TRUE, list |-> list]

NoRunAt == [given |-> FALSE, t |-> 0]
RunAt(t) == [given |-> TRUE, t |-> t]

NoFlag == [given |-> FALSE, b |-> FALSE]
Flag(b) == [given |-> TRUE, b |-> b]

NoId == [given |-> FALSE, id |-> ""]

\* EnqueueJobOptions with nothing set.
NoOptions ==
  [id |-> NoId, exclusive |-> NoFlag, override |-> NoFlag, retry |-> NoRetry,
   delay |-> Absent, runAt |-> NoRunAt, repeat |-> NoRepeat]

\* DefaultJobOptions = Pick<EnqueueJobOptions, "exclusive" | "retry">
NoDefaultJobOptions == [exclusive |-> NoFlag, retry |-> NoRetry]

\* The schema with the refinement of runAt left out.
SchemaIssuesNoRunAt(options, now) ==
  {issue \in {"retry", "delay"} :
     CASE issue = "retry" ->
            /\ options.retry.given
            /\ \/ Len(options.retry.list) < 1
               \/ Len(options.retry.list) > MaxRetryLen
               \/ \E i \in 1..Len(options.retry.list) : ~timeDuration(options.retry.list[i])
       [] OTHER ->
            options.delay.t # "absent" /\ ~timeDuration(options.delay)}

\* The issues EnqueueJobOptionsSchema.parse(options) reports, all of them at
\* once (zod collects every issue of the object); `now` is the reading of
\* Date.now() inside the refinement of runAt.
SchemaIssues(options, now) ==
  {issue \in {"retry", "delay", "runAt must not be in the past", "every", "times", "cron"} :
     CASE issue = "retry" ->
            /\ options.retry.given
            /\ \/ Len(options.retry.list) < 1
               \/ Len(options.retry.list) > MaxRetryLen
               \/ \E i \in 1..Len(options.retry.list) : ~timeDuration(options.retry.list[i])
       [] issue = "delay" ->
            options.delay.t # "absent" /\ ~timeDuration(options.delay)
       [] issue = "runAt must not be in the past" ->
            options.runAt.given /\ ~(now <= options.runAt.t)
       [] issue = "every" ->
            /\ options.repeat.given
            /\ options.repeat.every.t # "absent"
            /\ ~timeDuration(options.repeat.every)
       [] issue = "times" ->
            /\ options.repeat.given
            /\ options.repeat.times.given
            /\ options.repeat.times.n < 0
       [] OTHER ->
            /\ options.repeat.given
            /\ options.repeat.cron.given
            /\ ~isValidRegex(options.repeat.cron.expr)}

\* Errors: what was thrown, with the issues of a ZodError.
NoError == [kind |-> "none", issues |-> {}]
Error(kind) == [kind |-> kind, issues |-> {}]
ZodError(issues) == [kind |-> "ZodError", issues |-> issues]

ParsedRetry(retry) ==
  [given |-> retry.given,
   list |-> [i \in 1..Len(retry.list) |-> parseDuration(retry.list[i])]]

NoBody ==
  [exclusive |-> NoFlag, body |-> Undef, delay |-> NoNum, id |-> NoId,
   repeat |-> NoRepeat, every |-> NoNum, retry |-> ParsedRetry(NoRetry),
   override |-> NoFlag]

\* payloadAndOptionsToBody without the check of repeat against retry.
payloadAndOptionsToBodyNoConflict(payload, options, defaultJobOptions, encryptor, nowV, nowR) ==
  IF payload.k = "undefined"
  THEN [err |-> Error("MissingPayload"), body |-> NoBody]
  ELSE IF SchemaIssues(options, nowV) # {}
  THEN [err |-> ZodError(SchemaIssues(options, nowV)), body |-> NoBody]
  ELSE
    LET delay == IF options.runAt.given
                 THEN runAtToDelay(options.runAt.t, nowR)
                 ELSE parseDuration(options.delay)
        stringified == EnhancedJSONstringify(payload)
        stringifiedBody == IF encryptor.on THEN Encrypt(encryptor, stringified)
                           ELSE stringified
    IN [err |-> NoError,
        body |-> [exclusive |-> defaultJobOptions.exclusive,
                  body |-> stringifiedBody,
                  delay |-> delay,
                  id |-> options.id,
                  repeat |-> options.repeat,
                  every |-> parseDuration(options.repeat.every),
                  retry |-> ParsedRetry(options.retry),
                  override |-> options.override]]

\* payloadAndOptionsToBody: the checks in the order the code makes them, then
\* the delay, the repeat interval and the encoded (and encrypted) body.
\* nowV is the reading of Date.now() in the schema's refinement, nowR the
\* later reading in runAtToDelay.
payloadAndOptionsToBody(payload, options, defaultJobOptions, encryptor, nowV, nowR) ==
  IF payload.k = "undefined"
  THEN [err |-> Error("MissingPayload"), body |-> NoBody]
  ELSE IF options.repeat.given /\ options.retry.given /\ Len(options.retry.list) > 0
  THEN [err |-> Error("ConflictingSchedule"), body |-> NoBody]
  ELSE IF SchemaIssues(options, nowV) # {}
  THEN [err |-> ZodError(SchemaIssues(options, nowV)), body |-> NoBody]
  ELSE
    LET delay == IF options.runAt.given
                 THEN runAtToDelay(options.runAt.t, nowR)
                 ELSE parseDuration(options.delay)
        stringified == EnhancedJSONstringify(payload)
        stringifiedBody == IF encryptor.on THEN Encrypt(encryptor, stringified)
                           ELSE stringified
    IN [err |-> NoError,
        body |-> [exclusive |-> defaultJobOptions.exclusive,
                  body |-> stringifiedBody,
                  delay |-> delay,
                  id |-> options.id,
                  repeat |-> options.repeat,
                  every |-> parseDuration(options.repeat.every),
                  retry |-> ParsedRetry(options.retry),
                  override |-> options.override]]

\* -------------------------------------------------------------- registry

\* Routes are sequences of characters.  The two long routes differ only in
\* a character that `cron-job:${route}` carries past position NameLimit.
RouteA == <<"/", "a">>
LongRoute(last) == [i \in 1..56 |-> IF i = 1 THEN "/" ELSE IF i = 56 THEN last ELSE "x"]
RouteLong1 == LongRoute("1")
RouteLong2 == LongRoute("2")
Routes == {RouteA, RouteLong1, RouteLong2}

Substring(s, n) == SubSeq(s, 1, IF Len(s) < n THEN Len(s) ELSE n)

\* `cron-job:${this.route}`.substring(0, 64)
JobName(route) ==
  Substring(<<"c", "r", "o", "n", "-", "j", "o", "b", ":">> \o route, NameLimit)

\* this.applicationBaseUrl + "/" + this.route
Endpoint(applicationBaseUrl, route) == [base |-> applicationBaseUrl, route |-> route]

\* httpRequestSQL: the http request the job's command makes.  The headers
\* are Object.entries(headers).map((k, v) => http_header(k, v)): k is the
\* entry [name, value] and v its index in the array.
httpRequestSQL(url, method, body, headers) ==
  [method |-> method,
   url |-> url,
   headers |-> [i \in 1..Len(headers) |-> [name |-> headers[i], value |-> i - 1]],
   contentType |-> "application/json",
   body |-> EnhancedJSONstringify(body)]

\* const headers = { "x-quirrel-secret": "TODO-secret" }
EnqueueHeaders == << <<"x-quirrel-secret", "TODO-secret">> >>

\* model job: the row of cron.job; jobname and username are unique together
\* and every row of this database carries the connection's user.
CurrentUser == "postgres"
Row(jobid, jobname, schedule, command) ==
  [jobid |-> jobid, jobname |-> jobname, username |-> CurrentUser,
   schedule |-> schedule, command |-> command, active |-> TRUE]

Named(reg, jobName) == {r \in reg : r.jobname = jobName}

\* deleteMany without its where clause.
DeleteManyNoWhere(reg, jobName) == {}

\* prisma.job.deleteMany({ where: { jobname } })
DeleteManyByName(reg, jobName) == reg \ Named(reg, jobName)

\* deleteMany whose where clause takes every jobid up to the one given.
DeleteManyUpToId(reg, jobid) == {r \in reg : r.jobid > jobid}

\* prisma.job.deleteMany({ where: { jobid } })
DeleteManyById(reg, jobid) == {r \in reg : r.jobid # jobid}

\* cron.schedule(jobname, schedule, command) of pg_cron: the row of that
\* name and user is updated when there is one (jobname_username_uniq),
\* otherwise a row is inserted under the next jobid.
CronScheduleId(reg, nextId, jobName) ==
  IF Named(reg, jobName) # {}
  THEN (CHOOSE r \in Named(reg, jobName) : TRUE).jobid
  ELSE nextId

\* cron.schedule with its first two arguments taken in the wrong order.
CronScheduleSwapped(reg, nextId, jobName, schedule, command) ==
  LET jobid == CronScheduleId(reg, nextId, jobName)
  IN DeleteManyByName(reg, jobName) \cup {Row(jobid, schedule, jobName, command)}

\* cron.schedule as a plain insert into a table without jobname_username_uniq.
CronScheduleInsert(reg, nextId, jobName, schedule, command) ==
  reg \cup {Row(nextId, jobName, schedule, command)}

CronSchedule(reg, nextId, jobName, schedule, command) ==
  LET jobid == CronScheduleId(reg, nextId, jobName)
  IN DeleteManyByName(reg, jobName) \cup {Row(jobid, jobName, schedule, command)}

\* dbJobToJob: the endpoint is read back from the command, the body is "",
\* and no other field of the JobDTO is set (exclusive is undefined).
dbJobToJob(dbJob) ==
  [id |-> dbJob.jobid, body |-> EmptyString, endpoint |-> dbJob.command.url,
   cron |-> dbJob.schedule, exclusive |-> NoFlag]

\* decryptAndDecodeBody that lets every decryption failure propagate.
decryptAndDecodeBodyNoCatch(body, encryptor, catchDecryptionErrors) ==
  IF body.k \in {"undefined", "null"} \/ body = EmptyString
  THEN [err |-> [kind |-> "none", issues |-> {}], value |-> EmptyObj, caught |-> FALSE]
  ELSE IF body.k = "object"
  THEN [err |-> [kind |-> "none", issues |-> {}], value |-> body, caught |-> FALSE]
  ELSE IF body.k # "string"
  THEN [err |-> [kind |-> "InvalidBodyType", issues |-> {}], value |-> Undef,
        caught |-> FALSE]
  ELSE IF encryptor.on /\ ~Decrypt(encryptor, body).ok
  THEN [err |-> [kind |-> "DecryptionFailed", issues |-> {}], value |-> Undef,
        caught |-> FALSE]
  ELSE LET text == IF encryptor.on THEN Decrypt(encryptor, body).value ELSE body
           parsed == EnhancedJSONparse(text)
       IN IF parsed.ok
          THEN [err |-> [kind |-> "none", issues |-> {}], value |-> parsed.value,
                caught |-> FALSE]
          ELSE [err |-> [kind |-> "SyntaxError", issues |-> {}], value |-> Undef,
                caught |-> FALSE]

\* decryptAndDecodeBody: null, undefined and "" give {}; an object is
\* returned as it is; a string is decrypted when an encryptor is configured
\* (a failure goes to catchDecryptionErrors when installed, and the string is
\* then returned as it came) and parsed.
decryptAndDecodeBody(body, encryptor, catchDecryptionErrors) ==
  IF body.k \in {"undefined", "null"} \/ body = EmptyString
  THEN [err |-> NoError, value |-> EmptyObj, caught |-> FALSE]
  ELSE IF body.k = "object"
  THEN [err |-> NoError, value |-> body, caught |-> FALSE]
  ELSE IF body.k # "string"
  THEN [err |-> Error("InvalidBodyType"), value |-> Undef, caught |-> FALSE]
  ELSE IF encryptor.on /\ ~Decrypt(encryptor, body).ok
  THEN IF catchDecryptionErrors
       THEN [err |-> NoError, value |-> body, caught |-> TRUE]
       ELSE [err |-> Error("DecryptionFailed"), value |-> Undef, caught |-> FALSE]
  ELSE LET text == IF encryptor.on THEN Decrypt(encryptor, body).value ELSE body
           parsed == EnhancedJSONparse(text)
       IN IF parsed.ok
          THEN [err |-> NoError, value |-> parsed.value, caught |-> FALSE]
          ELSE [err |-> Error("SyntaxError"), value |-> Undef, caught |-> FALSE]

\* toJob: the job handed to the caller, its body decoded.
NoJob ==
  [id |-> 0, body |-> Undef, endpoint |-> Endpoint("", <<>>), cron |-> <<>>,
   exclusive |-> NoFlag]
toJob(dto, decoded) ==
  [id |-> dto.id, body |-> decoded.value, endpoint |-> dto.endpoint, cron |-> dto.cron,
   exclusive |-> dto.exclusive]

\* ----------------------------------------------------------------- state

Clients == {"q1", "q2"}

VARIABLES
  registry,      \* the rows of cron.job
  nextJobId,     \* the next value of the autoincrement column jobid
  clock,         \* the last reading of Date.now()
  cfg,           \* per client: the arguments its QuirrelClient was built with
  production,    \* process.env.NODE_ENV === "production"
  globalPrisma,  \* the shared PrismaClient: the database url it was built with
  calls,         \* per client: the registry call in flight and its locals
  deliv,         \* the delivery respondTo is serving
  enqueued       \* per jobid: the payload, schedule, name and client of the
                 \* enqueue that last scheduled it

vars == <<registry, nextJobId, clock, cfg, production, globalPrisma, calls,
          deliv, enqueued>>

NoPrisma == ""

NotEnqueued == [payload |-> Undef, cronSchedule |-> <<>>, jobName |-> <<>>, owner |-> ""]

IdleCall ==
  [op |-> "idle", pc |-> "idle", payload |-> Undef, options |-> NoOptions,
   body |-> NoBody, jobName |-> <<>>, cronSchedule |-> <<>>, id |-> 0,
   count |-> 0, jobId |-> 0, job |-> NoJob, result |-> FALSE, err |-> NoError,
   nowV |-> 0, nowR |-> 0, ops |-> 0, prev |-> {}, ret |-> NoNum,
   batch |-> <<>>, batches |-> 0]

Encryptor(c) == getEncryptor(cfg[c].encryptionSecret, cfg[c].oldSecrets)

\* The rows of reg keep what is known of their enqueue; a jobid without a
\* row has none.
Known(reg, enq) ==
  [j \in 1..MaxJobId |-> IF \E r \in reg : r.jobid = j THEN enq[j] ELSE NotEnqueued]

\* get prisma() building a client of its own at every access.
PrismaGetFresh(c) == cfg[c].databaseUrl

\* get prisma(): the shared client is built on first use only; without a
\* database url the getter raises (PrismaMissing) before it builds anything.
PrismaGet(c) == IF globalPrisma = NoPrisma THEN cfg[c].databaseUrl ELSE globalPrisma

\* enqueue, up to its first registry call: payloadAndOptionsToBody, then the
\* branch on body.repeat?.cron.
EnqueueCall(c, payload, options, nowR) ==
  /\ calls[c].pc = "idle"
  /\ nowR >= clock
  /\ LET res == payloadAndOptionsToBody(payload, options, cfg[c].defaultJobOptions,
                                        Encryptor(c), clock, nowR)
         cronSchedule == res.body.repeat.cron
         started == [IdleCall EXCEPT !.op = "enqueue", !.payload = payload,
                                     !.options = options, !.nowV = clock,
                                     !.nowR = nowR,
                                     !.prev = {r.schedule : r \in
                                        Named(registry, JobName(cfg[c].route))}]
     IN calls' = [calls EXCEPT ![c] =
          IF res.err # NoError
          THEN [started EXCEPT !.pc = "raised", !.err = res.err]
          ELSE IF cronSchedule.given /\ cronSchedule.expr # <<>>
          THEN [started EXCEPT !.pc = "deleteExisting", !.body = res.body,
                               !.jobName = JobName(cfg[c].route),
                               !.cronSchedule = cronSchedule.expr]
          ELSE [started EXCEPT !.pc = "raised", !.body = res.body,
                               !.err = Error("Unimplemented")]]
  /\ clock' = nowR
  /\ UNCHANGED <<registry, nextJobId, cfg, production, globalPrisma, deliv, enqueued>>

\* await this.deleteExisting(jobName)
EnqueueDeleteExisting(c) ==
  /\ calls[c].pc = "deleteExisting"
  /\ cfg[c].databaseUrl # NoPrisma
  /\ globalPrisma' = PrismaGet(c)
  /\ registry' = DeleteManyByName(registry, calls[c].jobName)
  /\ calls' = [calls EXCEPT ![c] =
       [calls[c] EXCEPT !.pc = "schedule", !.ops = calls[c].ops + 1,
                        !.count = Cardinality(Named(registry, calls[c].jobName))]]
  /\ UNCHANGED <<nextJobId, clock, cfg, production, deliv>>
  /\ enqueued' = Known(registry', enqueued)

\* cron.schedule registering a request that posts the payload as it is.
EnqueueSchedulePlain(c) ==
  /\ calls[c].pc = "schedule"
  /\ LET jobName == calls[c].jobName
         endpoint == [base |-> cfg[c].applicationBaseUrl, route |-> cfg[c].route]
         command == [method |-> "POST", url |-> endpoint, headers |-> <<>>,
                     contentType |-> "application/json",
                     body |-> [k |-> "string", form |-> "json",
                               v |-> calls[c].payload.v, key |-> ""]]
         named == {r \in registry : r.jobname = jobName}
         jobId == IF named = {} THEN nextJobId ELSE (CHOOSE r \in named : TRUE).jobid
     IN /\ jobId <= MaxJobId
        /\ registry' = {r \in registry : r.jobname # jobName} \cup
             {[jobid |-> jobId, jobname |-> jobName, username |-> "postgres",
               schedule |-> calls[c].cronSchedule, command |-> command,
               active |-> TRUE]}
        /\ nextJobId' = IF jobId = nextJobId THEN nextJobId + 1 ELSE nextJobId
        /\ enqueued' = [enqueued EXCEPT ![jobId] =
             [payload |-> calls[c].payload, cronSchedule |-> calls[c].cronSchedule,
              jobName |-> jobName, owner |-> c]]
        /\ calls' = [calls EXCEPT ![c] =
             [calls[c] EXCEPT !.pc = "getById", !.ops = calls[c].ops + 1,
                              !.jobId = jobId]]
  /\ UNCHANGED <<clock, cfg, production, globalPrisma, deliv>>

\* [{ schedule: jobId }] = await this.prisma.$queryRaw`select cron.schedule(...)`
EnqueueSchedule(c) ==
  /\ calls[c].pc = "schedule"
  /\ LET jobName == calls[c].jobName
         endpoint == Endpoint(cfg[c].applicationBaseUrl, cfg[c].route)
         command == httpRequestSQL(endpoint, "POST", EmptyObj, EnqueueHeaders)
         jobId == CronScheduleId(registry, nextJobId, jobName)
     IN /\ jobId <= MaxJobId
        /\ cfg[c].databaseUrl # NoPrisma
        /\ globalPrisma' = PrismaGet(c)
        /\ registry' = CronSchedule(registry, nextJobId, jobName,
                                    calls[c].cronSchedule, command)
        /\ nextJobId' = IF jobId = nextJobId THEN nextJobId + 1 ELSE nextJobId
        /\ enqueued' = [Known(registry, enqueued) EXCEPT ![jobId] =
             [payload |-> calls[c].payload, cronSchedule |-> calls[c].cronSchedule,
              jobName |-> jobName, owner |-> c]]
        /\ calls' = [calls EXCEPT ![c] =
             [calls[c] EXCEPT !.pc = "getById", !.ops = calls[c].ops + 1,
                              !.jobId = jobId]]
  /\ UNCHANGED <<clock, cfg, production, deliv>>

\* const job = await this.getById(jobId); if (!job) throw ...
EnqueueGetById(c) ==
  /\ calls[c].pc = "getById"
  /\ cfg[c].databaseUrl # NoPrisma
  /\ globalPrisma' = PrismaGet(c)
  /\ LET found == {r \in registry : r.jobid = calls[c].jobId}
         issued == [calls[c] EXCEPT !.ops = calls[c].ops + 1]
     IN calls' = [calls EXCEPT ![c] =
          IF found = {}
          THEN [issued EXCEPT !.pc = "raised", !.err = Error("JobNotFound")]
          ELSE LET dto == dbJobToJob(CHOOSE r \in found : TRUE)
                   decoded == decryptAndDecodeBody(dto.body, Encryptor(c),
                                                   cfg[c].catchDecryptionErrors)
               IN IF decoded.err # NoError
                  THEN [issued EXCEPT !.pc = "raised", !.err = decoded.err]
                  ELSE [issued EXCEPT !.pc = "returned", !.job = toJob(dto, decoded)]]
  /\ UNCHANGED <<registry, nextJobId, clock, cfg, production, deliv, enqueued>>

\* A registry call in flight fails: the backing store is unreachable, the
\* call changes nothing and its error ends the operation.
RegistryError(c) ==
  /\ calls[c].pc \in {"deleteExisting", "schedule", "getById", "deleteCron",
                      "deleteMany", "deleteAll", "findMany"}
  /\ cfg[c].databaseUrl # NoPrisma
  /\ calls' = [calls EXCEPT ![c] =
       [calls[c] EXCEPT !.pc = "raised", !.ops = calls[c].ops + 1,
                        !.err = Error("RegistryUnavailable")]]
  /\ UNCHANGED <<registry, nextJobId, clock, cfg, production, globalPrisma, deliv, enqueued>>

\* A registry call of a client without a database url: get prisma() raises
\* "Missing required QUIRREL_DATABASE_URL" and the call ends there.
PrismaMissing(c) ==
  /\ calls[c].pc \in {"deleteExisting", "schedule", "getById", "deleteCron",
                      "deleteMany", "deleteAll", "findMany"}
  /\ cfg[c].databaseUrl = NoPrisma
  /\ calls' = [calls EXCEPT ![c] =
       [calls[c] EXCEPT !.pc = "raised", !.err = Error("MissingDatabaseUrl")]]
  /\ UNCHANGED <<registry, nextJobId, clock, cfg, production, globalPrisma, deliv, enqueued>>

\* The caller has its result or its error; the client is ready for the next call.
Return(c) ==
  /\ calls[c].pc \in {"returned", "raised"}
  /\ calls' = [calls EXCEPT ![c] = IdleCall]
  /\ UNCHANGED <<registry, nextJobId, clock, cfg, production, globalPrisma, deliv, enqueued>>

\* Job ids as callers pass them to delete: "@cron", a number, another string.
CronId == [kind |-> "@cron", n |-> 0]
NumId(n) == [kind |-> "number", n |-> n]
OtherId == [kind |-> "string", n |-> 0]

\* delete(id), up to its registry call.
DeleteCall(c, id) ==
  /\ calls[c].pc = "idle"
  /\ calls' = [calls EXCEPT ![c] =
       LET started == [IdleCall EXCEPT !.op = "delete", !.id = id.n]
       IN CASE id.kind = "@cron" ->
                 [started EXCEPT !.pc = "deleteCron", !.jobName = JobName(cfg[c].route)]
            [] id.kind = "number" -> [started EXCEPT !.pc = "deleteMany"]
            [] OTHER -> [started EXCEPT !.pc = "raised", !.err = Error("InvalidJobId")]]
  /\ UNCHANGED <<registry, nextJobId, clock, cfg, production, globalPrisma, deliv, enqueued>>

\* delete("@cron"): count = await this.deleteExisting(name); return count > 0
DeleteCron(c) ==
  /\ calls[c].pc = "deleteCron"
  /\ cfg[c].databaseUrl # NoPrisma
  /\ globalPrisma' = PrismaGet(c)
  /\ registry' = DeleteManyByName(registry, calls[c].jobName)
  /\ LET count == Cardinality(Named(registry, calls[c].jobName))
     IN calls' = [calls EXCEPT ![c] =
          [calls[c] EXCEPT !.pc = "returned", !.ops = 1, !.count = count,
                           !.result = count > 0]]
  /\ UNCHANGED <<nextJobId, clock, cfg, production, deliv>>
  /\ enqueued' = Known(registry', enqueued)

\* delete(<number>): deleteMany({ where: { jobid } }); return count > 0
DeleteMany(c) ==
  /\ calls[c].pc = "deleteMany"
  /\ cfg[c].databaseUrl # NoPrisma
  /\ globalPrisma' = PrismaGet(c)
  /\ registry' = DeleteManyById(registry, calls[c].id)
  /\ LET count == Cardinality(registry \ DeleteManyById(registry, calls[c].id))
     IN calls' = [calls EXCEPT ![c] =
          [calls[c] EXCEPT !.pc = "returned", !.ops = 1, !.count = count,
                           !.result = count > 0]]
  /\ UNCHANGED <<nextJobId, clock, cfg, production, deliv>>
  /\ enqueued' = Known(registry', enqueued)

\* deleteAll(), up to its registry call.
DeleteAllCall(c) ==
  /\ calls[c].pc = "idle"
  /\ calls' = [calls EXCEPT ![c] = [IdleCall EXCEPT !.op = "deleteAll", !.pc = "deleteAll"]]
  /\ UNCHANGED <<registry, nextJobId, clock, cfg, production, globalPrisma, deliv, enqueued>>

\* deleteAll: const { count } = await this.prisma.job.deleteMany(); the count
\* is logged when positive and the function ends without a return statement
\* (ret stays undefined).
DeleteAll(c) ==
  /\ calls[c].pc = "deleteAll"
  /\ cfg[c].databaseUrl # NoPrisma
  /\ globalPrisma' = PrismaGet(c)
  /\ registry' = {}
  /\ calls' = [calls EXCEPT ![c] =
       [calls[c] EXCEPT !.pc = "returned", !.ops = 1, !.count = Cardinality(registry)]]
  /\ UNCHANGED <<nextJobId, clock, cfg, production, deliv>>
  /\ enqueued' = Known(registry', enqueued)

\* findMany without its where clause.
FindManyAll(reg, jobName) == reg

\* prisma.job.findMany({ where: { jobname } })
FindManyByName(reg, jobName) == {r \in reg : r.jobname = jobName}

\* The rows of a result, in the order of their jobid.
RECURSIVE RowsInOrder(_)
RowsInOrder(rows) ==
  IF rows = {} THEN <<>>
  ELSE LET first == CHOOSE r \in rows : \A q \in rows : r.jobid <= q.jobid
       IN <<first>> \o RowsInOrder(rows \ {first})

\* get(), up to its registry call.
GetCall(c) ==
  /\ calls[c].pc = "idle"
  /\ calls' = [calls EXCEPT ![c] =
       [IdleCall EXCEPT !.op = "get", !.pc = "findMany",
                        !.jobName = JobName(cfg[c].route)]]
  /\ UNCHANGED <<registry, nextJobId, clock, cfg, production, globalPrisma, deliv, enqueued>>

\* get(): one findMany by name; its rows, each through dbJobToJob and toJob,
\* are the one batch the generator yields before it ends.
GetFindMany(c) ==
  /\ calls[c].pc = "findMany"
  /\ cfg[c].databaseUrl # NoPrisma
  /\ globalPrisma' = PrismaGet(c)
  /\ LET rows == RowsInOrder(FindManyByName(registry, calls[c].jobName))
         job(r) == toJob(dbJobToJob(r),
                         decryptAndDecodeBody(dbJobToJob(r).body, Encryptor(c),
                                              cfg[c].catchDecryptionErrors))
     IN calls' = [calls EXCEPT ![c] =
          [calls[c] EXCEPT !.pc = "returned", !.ops = 1,
                           !.batch = [i \in 1..Len(rows) |-> job(rows[i])],
                           !.batches = 1]]
  /\ UNCHANGED <<registry, nextJobId, clock, cfg, production, deliv, enqueued>>

\* enqueueMany(jobs): throw new Error("UNIMPLEMENTED")
EnqueueManyCall(c) ==
  /\ calls[c].pc = "idle"
  /\ calls' = [calls EXCEPT ![c] =
       [IdleCall EXCEPT !.op = "enqueueMany", !.pc = "raised",
                        !.err = Error("Unimplemented")]]
  /\ UNCHANGED <<registry, nextJobId, clock, cfg, production, globalPrisma, deliv, enqueued>>

\* invoke answering that the job could not be found.
InvokeReturnsFalse(c, id) ==
  /\ calls[c].pc = "idle"
  /\ calls' = [calls EXCEPT ![c] =
       [IdleCall EXCEPT !.op = "invoke", !.pc = "returned", !.id = id.n]]
  /\ UNCHANGED <<registry, nextJobId, clock, cfg, production, globalPrisma, deliv, enqueued>>

\* invoke(id): throw new Error("UNIMPLEMENTED")
InvokeCall(c, id) ==
  /\ calls[c].pc = "idle"
  /\ calls' = [calls EXCEPT ![c] =
       [IdleCall EXCEPT !.op = "invoke", !.pc = "raised", !.id = id.n,
                        !.err = Error("Unimplemented")]]
  /\ UNCHANGED <<registry, nextJobId, clock, cfg, production, globalPrisma, deliv, enqueued>>

\* ---------------------------------------------------------------- delivery

\* The x-quirrel-signature header: absent, the signature of a body under a
\* token, or some other text.
NoSignature == [k |-> "absent", body |-> Undef, token |-> ""]
BogusSignature == [k |-> "text", body |-> Undef, token |-> "bogus"]

\* sign / verify of secure-webhooks: a keyed digest of the body, and the
\* comparison of a signature with the digest recomputed.
sign(body, secret) == [k |-> "digest", body |-> body, token |-> secret]
verify(body, secret, signature) == signature = sign(body, secret)

\* The x-quirrel-meta header: absent, the JSON text of the job's metadata,
\* or a text JSON.parse rejects.
NoMetaHeader == [k |-> "absent", id |-> NoNum, count |-> NoNum, exclusive |-> NoFlag]
MetaHeader(id, count, exclusive) ==
  [k |-> "json", id |-> Val(id), count |-> Val(count), exclusive |-> exclusive]
MalformedMetaHeader == [k |-> "malformed", id |-> NoNum, count |-> NoNum, exclusive |-> NoFlag]

\* const { id, count, retry, nextRepetition, exclusive } = JSON.parse(header ?? "{}")
NoMeta ==
  [id |-> NoNum, count |-> NoNum, retry |-> NoRetry, nextRepetition |-> NoNum,
   exclusive |-> NoFlag]
ParseMeta(header) ==
  [NoMeta EXCEPT !.id = header.id, !.count = header.count, !.exclusive = header.exclusive]

\* String(error)
StringOf(error) == <<"Error: ", error>>

NoResponse == [status |-> 0, body |-> <<>>]
Response(status, body) == [status |-> status, body |-> body]

IdleDeliv ==
  [pc |-> "idle", client |-> "q1", body |-> Undef, signature |-> NoSignature,
   meta |-> NoMetaHeader, payload |-> Undef, caught |-> 0, invoked |-> 0,
   handlerPayload |-> Undef, handlerMeta |-> NoMeta, handlerError |-> "",
   response |-> NoResponse, err |-> NoError, job |-> 0, expected |-> Undef]

\* An HTTP request for client c's route reaches respondTo(body, headers).
\* job names the registry row the request was made for (0: none) and
\* expected the payload that row was enqueued with.
Receive(c, body, signature, meta, job) ==
  /\ deliv.pc = "idle"
  /\ deliv' = [IdleDeliv EXCEPT !.pc = "received", !.client = c, !.body = body,
                                !.signature = signature, !.meta = meta, !.job = job,
                                !.expected = IF job = 0 THEN Undef
                                             ELSE enqueued[job].payload]
  /\ UNCHANGED <<registry, nextJobId, clock, cfg, production, globalPrisma, calls, enqueued>>

\* The signature check that only asks for the header.
RespondAuthenticatePresence ==
  /\ deliv.pc = "received"
  /\ deliv' =
       IF production /\ deliv.signature.k = "absent"
       THEN [deliv EXCEPT !.pc = "responded",
                          !.response = Response(401, <<"Signature missing">>)]
       ELSE [deliv EXCEPT !.pc = "authenticated"]
  /\ UNCHANGED <<registry, nextJobId, clock, cfg, production, globalPrisma, calls, enqueued>>

\* respondTo: the signature check of production mode.
RespondAuthenticate ==
  /\ deliv.pc = "received"
  /\ deliv' =
       IF production /\ deliv.signature.k = "absent"
       THEN [deliv EXCEPT !.pc = "responded",
                          !.response = Response(401, <<"Signature missing">>)]
       ELSE IF production /\ ~verify(deliv.body, cfg[deliv.client].token, deliv.signature)
       THEN [deliv EXCEPT !.pc = "responded",
                          !.response = Response(401, <<"Signature invalid">>)]
       ELSE [deliv EXCEPT !.pc = "authenticated"]
  /\ UNCHANGED <<registry, nextJobId, clock, cfg, production, globalPrisma, calls, enqueued>>

\* const payload = await this.decryptAndDecodeBody(body)
RespondDecrypt ==
  /\ deliv.pc = "authenticated"
  /\ LET c == deliv.client
         decoded == decryptAndDecodeBody(deliv.body, Encryptor(c),
                                         cfg[c].catchDecryptionErrors)
     IN deliv' =
          IF decoded.err # NoError
          THEN [deliv EXCEPT !.pc = "raised", !.err = decoded.err]
          ELSE [deliv EXCEPT !.pc = "decrypted", !.payload = decoded.value,
                             !.caught = IF decoded.caught THEN 1 ELSE 0]
  /\ UNCHANGED <<registry, nextJobId, clock, cfg, production, globalPrisma, calls, enqueued>>

\* The metadata step that insists on the header.
RespondInvokeStrict ==
  /\ deliv.pc = "decrypted"
  /\ deliv' =
       IF deliv.meta.k # "json"
       THEN [deliv EXCEPT !.pc = "raised",
                          !.err = [kind |-> "SyntaxError", issues |-> {}]]
       ELSE [deliv EXCEPT !.pc = "handling", !.invoked = deliv.invoked + 1,
                          !.handlerPayload = deliv.payload,
                          !.handlerMeta = [id |-> deliv.meta.id, count |-> deliv.meta.count,
                                           retry |-> NoRetry, nextRepetition |-> NoNum,
                                           exclusive |-> deliv.meta.exclusive]]
  /\ UNCHANGED <<registry, nextJobId, clock, cfg, production, globalPrisma, calls, enqueued>>

\* JSON.parse of the metadata header, then the call of this.handler(payload, meta).
RespondInvoke ==
  /\ deliv.pc = "decrypted"
  /\ deliv' =
       IF deliv.meta.k = "malformed"
       THEN [deliv EXCEPT !.pc = "raised", !.err = Error("SyntaxError")]
       ELSE [deliv EXCEPT !.pc = "handling", !.invoked = deliv.invoked + 1,
                          !.handlerPayload = deliv.payload,
                          !.handlerMeta = ParseMeta(deliv.meta)]
  /\ UNCHANGED <<registry, nextJobId, clock, cfg, production, globalPrisma, calls, enqueued>>

\* The handler returns: { status: 200, body: "OK" }.
HandlerReturns ==
  /\ deliv.pc = "handling"
  /\ deliv' = [deliv EXCEPT !.pc = "responded", !.response = Response(200, <<"OK">>)]
  /\ UNCHANGED <<registry, nextJobId, clock, cfg, production, globalPrisma, calls, enqueued>>

\* The handler raises and nothing catches the error.
HandlerThrowsUncaught(error) ==
  /\ deliv.pc = "handling"
  /\ deliv' = [deliv EXCEPT !.pc = "raised", !.handlerError = error,
                            !.err = Error("HandlerError")]
  /\ UNCHANGED <<registry, nextJobId, clock, cfg, production, globalPrisma, calls, enqueued>>

\* The handler raises: { status: 500, body: String(error) }.
HandlerThrows(error) ==
  /\ deliv.pc = "handling"
  /\ deliv' = [deliv EXCEPT !.pc = "responded", !.handlerError = error,
                            !.response = Response(500, StringOf(error))]
  /\ UNCHANGED <<registry, nextJobId, clock, cfg, production, globalPrisma, calls, enqueued>>

\* The response (or the error respondTo raised) has gone to the transport.
RespondDone ==
  /\ deliv.pc \in {"responded", "raised"}
  /\ deliv' = IdleDeliv
  /\ UNCHANGED <<registry, nextJobId, clock, cfg, production, globalPrisma, calls, enqueued>>

\* ------------------------------------------------------------------ inputs

Config(route, encryptionSecret, oldSecrets, catchDecryptionErrors) ==
  [route |-> route, applicationBaseUrl |-> "http://app", token |-> "t1",
   databaseUrl |-> "db1", encryptionSecret |-> encryptionSecret,
   oldSecrets |-> oldSecrets, catchDecryptionErrors |-> catchDecryptionErrors,
   defaultJobOptions |-> NoDefaultJobOptions]

\* The routes of the two clients: the same route, two routes whose names
\* are different, two routes whose names are cut to the same 64 characters.
RouteAssignments ==
  {[c \in Clients |-> RouteA],
   [c \in Clients |-> IF c = "q1" THEN RouteA ELSE RouteLong1],
   [c \in Clients |-> IF c = "q1" THEN RouteLong1 ELSE RouteLong2]}

\* Secrets as configured: none, or an active secret with one rotated out.
Encryptions == {[secret |-> NoSecret, old |-> <<>>], [secret |-> "k1", old |-> <<"k0">>]}

InitState ==
  /\ registry = {}
  /\ nextJobId = 1
  /\ clock = 0
  /\ globalPrisma = NoPrisma
  /\ calls = [c \in Clients |-> IdleCall]
  /\ deliv = IdleDeliv
  /\ enqueued = [j \in 1..MaxJobId |-> NotEnqueued]

AllIdle == deliv.pc = "idle" /\ \A c \in Clients : calls[c].pc = "idle"

CronOptions(expr) == [NoOptions EXCEPT !.repeat = Repeat(Absent, NoTimes, CronOf(expr))]

\* ------------------------------------------- concurrent registry operations

Init ==
  /\ InitState
  /\ production = FALSE
  /\ cfg \in {[c \in Clients |-> Config(ra[c], NoSecret, <<>>, FALSE)] :
                ra \in RouteAssignments}

Enqueue ==
  \E c \in Clients, expr \in {CronEveryMinute, CronHourly} :
    EnqueueCall(c, Obj("foo"), CronOptions(expr), clock)

Delete == \E c \in Clients, id \in {CronId, OtherId} \cup {NumId(n) : n \in 1..MaxJobId} :
  DeleteCall(c, id)

Next ==
  \/ Enqueue
  \/ \E c \in Clients : EnqueueDeleteExisting(c)
  \/ \E c \in Clients : EnqueueSchedule(c)
  \/ \E c \in Clients : EnqueueGetById(c)
  \/ \E c \in Clients : RegistryError(c)
  \/ Delete
  \/ \E c \in Clients : DeleteCron(c)
  \/ \E c \in Clients : DeleteMany(c)
  \/ \E c \in Clients : DeleteAllCall(c)
  \/ \E c \in Clients : DeleteAll(c)
  \/ \E c \in Clients : Return(c)

Spec == Init /\ [][Next]_vars

\* Concurrent enqueue calls alone, against a registry that answers.
NextConc ==
  \/ Enqueue
  \/ \E c \in Clients : EnqueueDeleteExisting(c)
  \/ \E c \in Clients : EnqueueSchedule(c)
  \/ \E c \in Clients : EnqueueGetById(c)
  \/ \E c \in Clients : Return(c)

SpecConc == Init /\ [][NextConc]_vars

\* Enqueue, get and delete("@cron") of the two clients, interleaved.
NextList ==
  \/ Enqueue
  \/ \E c \in Clients : EnqueueDeleteExisting(c)
  \/ \E c \in Clients : EnqueueSchedule(c)
  \/ \E c \in Clients : EnqueueGetById(c)
  \/ \E c \in Clients : GetCall(c)
  \/ \E c \in Clients : GetFindMany(c)
  \/ \E c \in Clients : DeleteCall(c, CronId)
  \/ \E c \in Clients : DeleteCron(c)
  \/ \E c \in Clients : RegistryError(c)
  \/ \E c \in Clients : Return(c)

SpecList == Init /\ [][NextList]_vars

\* Clients of one process configured with the same database url, with two
\* different ones, or one of them with none.
DatabaseUrls ==
  {[c \in Clients |-> "db1"],
   [c \in Clients |-> IF c = "q1" THEN "db1" ELSE "db2"],
   [c \in Clients |-> IF c = "q1" THEN "db1" ELSE NoPrisma],
   [c \in Clients |-> IF c = "q1" THEN NoPrisma ELSE "db2"]}

InitConn ==
  /\ InitState
  /\ production = FALSE
  /\ cfg \in {[c \in Clients |->
                 [Config(IF c = "q1" THEN RouteA ELSE RouteLong1, NoSecret, <<>>, FALSE)
                    EXCEPT !.databaseUrl = urls[c]]] : urls \in DatabaseUrls}

NextConn ==
  \/ Enqueue
  \/ \E c \in Clients : EnqueueDeleteExisting(c)
  \/ \E c \in Clients : EnqueueSchedule(c)
  \/ \E c \in Clients : EnqueueGetById(c)
  \/ \E c \in Clients : GetCall(c)
  \/ \E c \in Clients : GetFindMany(c)
  \/ Delete
  \/ \E c \in Clients : DeleteCron(c)
  \/ \E c \in Clients : DeleteMany(c)
  \/ \E c \in Clients : DeleteAllCall(c)
  \/ \E c \in Clients : DeleteAll(c)
  \/ \E c \in Clients : PrismaMissing(c)
  \/ \E c \in Clients : Return(c)

SpecConn == InitConn /\ [][NextConn]_vars

\* ----------------------------------- one operation at a time, and deliveries

InitSeq ==
  /\ InitState
  /\ production \in BOOLEAN
  /\ cfg \in {[c \in Clients |-> Config(ra[c], e.secret, e.old, catch)] :
                ra \in RouteAssignments, e \in Encryptions, catch \in BOOLEAN}

EnqueueSeq ==
  /\ AllIdle
  /\ \E c \in Clients, payload \in {EmptyObj, Obj("foo")},
        expr \in {CronEveryMinute, CronHourly} :
       EnqueueCall(c, payload, CronOptions(expr), clock)

\* The delivery of a registered job as a test of the round trip makes it: the
\* body the registry holds for the job (the body of the row's http request,
\* or the body dbJobToJob reports), signed with the client's token.
DeliverStored ==
  /\ AllIdle
  /\ \E c \in Clients, r \in registry :
       /\ r.command.url = Endpoint(cfg[c].applicationBaseUrl, cfg[c].route)
       /\ \E body \in {r.command.body, dbJobToJob(r).body} :
            Receive(c, body, sign(body, cfg[c].token), NoMetaHeader, r.jobid)

NextSeq ==
  \/ EnqueueSeq
  \/ \E c \in Clients : EnqueueDeleteExisting(c)
  \/ \E c \in Clients : EnqueueSchedule(c)
  \/ \E c \in Clients : EnqueueGetById(c)
  \/ \E c \in Clients : Return(c)
  \/ DeliverStored
  \/ RespondAuthenticate
  \/ RespondDecrypt
  \/ RespondInvoke
  \/ HandlerReturns
  \/ HandlerThrows("boom")
  \/ RespondDone

SpecSeq == InitSeq /\ [][NextSeq]_vars

\* ------------------------------------------- deliveries made by the engine

\* The x-quirrel-signature header of the request a command makes: the
\* command names each header by the text of an entry of the headers object
\* (a tuple of its parts), so a header is the signature header when its name
\* is that one text.
EngineSignature(command) ==
  IF \E i \in 1..Len(command.headers) :
       command.headers[i].name = <<"x-quirrel-signature">>
  THEN BogusSignature
  ELSE NoSignature

\* pg_cron runs the command of a row: the request the command describes,
\* with its headers and its body, reaches the client of that endpoint.
EngineFires ==
  /\ AllIdle
  /\ \E c \in Clients, r \in registry :
       /\ r.command.url = Endpoint(cfg[c].applicationBaseUrl, cfg[c].route)
       /\ Receive(c, r.command.body, EngineSignature(r.command), NoMetaHeader, r.jobid)

NextEngine ==
  \/ EnqueueSeq
  \/ \E c \in Clients : EnqueueDeleteExisting(c)
  \/ \E c \in Clients : EnqueueSchedule(c)
  \/ \E c \in Clients : EnqueueGetById(c)
  \/ \E c \in Clients : Return(c)
  \/ EngineFires
  \/ RespondAuthenticate
  \/ RespondDecrypt
  \/ RespondInvoke
  \/ HandlerReturns
  \/ HandlerThrows("boom")
  \/ RespondDone

SpecEngine == InitSeq /\ [][NextEngine]_vars

\* ------------------------------------------------------- exclusive jobs

\* Every job is enqueued as exclusive: q1 by its options, q2 by the default
\* job options it was built with.
InitExclusive ==
  /\ InitState
  /\ production = FALSE
  /\ cfg = [c \in Clients |->
              IF c = "q1"
              THEN Config(RouteA, NoSecret, <<>>, FALSE)
              ELSE [Config(RouteLong1, NoSecret, <<>>, FALSE)
                      EXCEPT !.defaultJobOptions.exclusive = Flag(TRUE)]]

EnqueueExclusive ==
  /\ AllIdle
  /\ \E payload \in {EmptyObj, Obj("foo")}, expr \in {CronEveryMinute, CronHourly} :
       \/ EnqueueCall("q1", payload, [CronOptions(expr) EXCEPT !.exclusive = Flag(TRUE)],
                      clock)
       \/ EnqueueCall("q2", payload, CronOptions(expr), clock)

NextExclusive ==
  \/ EnqueueExclusive
  \/ \E c \in Clients : EnqueueDeleteExisting(c)
  \/ \E c \in Clients : EnqueueSchedule(c)
  \/ \E c \in Clients : EnqueueGetById(c)
  \/ \E c \in Clients : AllIdle /\ GetCall(c)
  \/ \E c \in Clients : GetFindMany(c)
  \/ \E c \in Clients : Return(c)
  \/ EngineFires
  \/ RespondAuthenticate
  \/ RespondDecrypt
  \/ RespondInvoke
  \/ HandlerReturns
  \/ HandlerThrows("boom")
  \/ RespondDone

SpecExclusive == InitExclusive /\ [][NextExclusive]_vars

\* ------------------------------------------------- the schedule normalizer

Payloads == {Undef, Obj("foo")}

Delays == {Absent, Num(0), Num(1), Num(0 - 1)} \cup {Str(s) : s \in DurStrings}

RunAts == {NoRunAt} \cup {RunAt(at) : at \in 0..MaxTime}

Retries ==
  {NoRetry, Retry(<<>>), Retry(<<Num(1)>>), Retry(<<Str(<<"s">>)>>),
   Retry([i \in 1..(MaxRetryLen + 1) |-> Num(1)])}

Repeats ==
  {NoRepeat,
   Repeat(Absent, NoTimes, NoCron),
   Repeat(Num(1), NoTimes, NoCron),
   Repeat(Str(<<"-", "1">>), NoTimes, CronOf(CronEveryMinute)),
   Repeat(Absent, Times(0 - 1), CronOf(CronEveryMinute)),
   Repeat(Absent, NoTimes, CronOf(CronEveryMinute)),
   Repeat(Absent, NoTimes, CronOf(CronHourly)),
   Repeat(Absent, NoTimes, CronOf(CronThreeFields)),
   Repeat(Absent, NoTimes, CronOf(CronBadField))}

\* Every delay alone and with a cron schedule; every combination of the
\* other options with and without a numeric delay.
Options ==
  {[NoOptions EXCEPT !.delay = d, !.repeat = r] :
     d \in Delays, r \in {NoRepeat, Repeat(Absent, NoTimes, CronOf(CronEveryMinute))}}
  \cup
  {[NoOptions EXCEPT !.delay = d, !.runAt = a, !.retry = y, !.repeat = r] :
     d \in {Absent, Num(1)}, a \in RunAts, y \in Retries, r \in Repeats}

InitNorm ==
  /\ InitState
  /\ production = FALSE
  /\ cfg = [c \in Clients |-> Config(RouteA, NoSecret, <<>>, FALSE)]

EnqueueNorm ==
  /\ AllIdle
  /\ \E payload \in Payloads, options \in Options, nowR \in clock..MaxTime :
       EnqueueCall("q1", payload, options, nowR)

NextNorm ==
  \/ EnqueueNorm
  \/ \E c \in Clients : EnqueueDeleteExisting(c)
  \/ \E c \in Clients : EnqueueSchedule(c)
  \/ \E c \in Clients : EnqueueGetById(c)
  \/ \E c \in Clients : Return(c)

SpecNorm == InitNorm /\ [][NextNorm]_vars

\* The calls of the normalizer's specification and the operations that are
\* not implemented.
NextUnsupported ==
  \/ EnqueueNorm
  \/ \E c \in Clients : EnqueueDeleteExisting(c)
  \/ \E c \in Clients : EnqueueSchedule(c)
  \/ \E c \in Clients : EnqueueGetById(c)
  \/ \E c \in Clients : Return(c)
  \/ \E c \in Clients : EnqueueManyCall(c)
  \/ \E c \in Clients, n \in 1..MaxJobId : InvokeCall(c, NumId(n))

SpecUnsupported == InitNorm /\ [][NextUnsupported]_vars

\* --------------------------------------------------- inbound deliveries

InitRespond ==
  /\ InitState
  /\ production \in BOOLEAN
  /\ cfg \in {[c \in Clients |-> Config(RouteA, e.secret, e.old, catch)] :
                e \in Encryptions, catch \in BOOLEAN}

Bodies ==
  {Undef, Null, NumberValue, EmptyString, Text("bogus"), Obj("foo"),
   JsonText("foo"), JsonText("{}"),
   Cipher("k1", "foo"), Cipher("k0", "foo"), Cipher("kx", "foo")}

Signatures(body) ==
  {NoSignature, BogusSignature, sign(body, "t1"), sign(body, "t2"),
   sign(Text("other"), "t1")}

MetaHeaders == {NoMetaHeader, MetaHeader(1, 1, Flag(TRUE)), MalformedMetaHeader}

Inbound ==
  \E body \in Bodies, meta \in MetaHeaders :
    \E signature \in Signatures(body) : Receive("q1", body, signature, meta, 0)

NextRespond ==
  \/ Inbound
  \/ RespondAuthenticate
  \/ RespondDecrypt
  \/ RespondInvoke
  \/ HandlerReturns
  \/ HandlerThrows("boom")
  \/ RespondDone

SpecRespond == InitRespond /\ [][NextRespond]_vars

\* ------------------------------------------------------ secret rotation

\* q1 is the client as it was configured before a rotation and q2 the client
\* as it is configured after it: the former active secret moved to the head
\* of the retired list, or (lost) dropped from the configuration.
Retired == {<<>>, <<"kr">>}

Rotations ==
  {[before |-> [secret |-> "k0", old |-> R],
    after |-> [secret |-> "k1", old |-> <<"k0">> \o R]] : R \in Retired}
  \cup
  {[before |-> [secret |-> "k0", old |-> R],
    after |-> [secret |-> "k1", old |-> R]] : R \in Retired}

InitRotate ==
  /\ InitState
  /\ production = FALSE
  /\ cfg \in {[c \in Clients |->
                 IF c = "q1"
                 THEN Config(RouteA, rot.before.secret, rot.before.old, catch)
                 ELSE Config(RouteA, rot.after.secret, rot.after.old, catch)] :
                rot \in Rotations, catch \in BOOLEAN}

EnqueueRotate ==
  /\ AllIdle
  /\ \E c \in Clients, payload \in {EmptyObj, Obj("foo")},
        options \in {CronOptions(CronEveryMinute), [NoOptions EXCEPT !.delay = Num(1)]} :
       EnqueueCall(c, payload, options, clock)

\* The body a finished enqueue of client from produced (stringified, then
\* encrypted under from's active secret) reaches respondTo of client to.
DeliverProduced ==
  \E from \in Clients, to \in Clients :
    /\ deliv.pc = "idle"
    /\ calls[from].op = "enqueue"
    /\ calls[from].pc \in {"returned", "raised"}
    /\ calls[from].body.body.k = "string"
    /\ deliv' = [IdleDeliv EXCEPT !.pc = "received", !.client = to,
                                  !.body = calls[from].body.body,
                                  !.signature = sign(calls[from].body.body, cfg[to].token),
                                  !.expected = calls[from].payload]
    /\ UNCHANGED <<registry, nextJobId, clock, cfg, production, globalPrisma, calls, enqueued>>

NextRotate ==
  \/ EnqueueRotate
  \/ \E c \in Clients : EnqueueDeleteExisting(c)
  \/ \E c \in Clients : EnqueueSchedule(c)
  \/ \E c \in Clients : EnqueueGetById(c)
  \/ \E c \in Clients : Return(c)
  \/ DeliverProduced
  \/ RespondAuthenticate
  \/ RespondDecrypt
  \/ RespondInvoke
  \/ HandlerReturns
  \/ HandlerThrows("boom")
  \/ RespondDone

SpecRotate == InitRotate /\ [][NextRotate]_vars

\* ---------------------------------------------------------------- shutdown

\* The cleanup hook the run command registers with client.beforeExit:
\*   try { await client.deleteAll() } catch (err) { console.error(..., err) }
\*   try { await cronDetector.close() } catch {}
\*   process.exit()
\* The hook is invoked for client c.
ShutdownHook(c) ==
  /\ calls[c].pc = "idle"
  /\ calls' = [calls EXCEPT ![c] =
       [IdleCall EXCEPT !.op = "shutdown", !.pc = "hookDeleteAll"]]
  /\ UNCHANGED <<registry, nextJobId, clock, cfg, production, globalPrisma, deliv, enqueued>>

\* await client.deleteAll() succeeds.
HookDeleteAll(c) ==
  /\ calls[c].pc = "hookDeleteAll"
  /\ cfg[c].databaseUrl # NoPrisma
  /\ globalPrisma' = PrismaGet(c)
  /\ registry' = {}
  /\ calls' = [calls EXCEPT ![c] =
       [calls[c] EXCEPT !.pc = "hookClose", !.ops = 1, !.count = Cardinality(registry)]]
  /\ enqueued' = Known(registry', enqueued)
  /\ UNCHANGED <<nextJobId, clock, cfg, production, deliv>>

\* await client.deleteAll() is rejected and the error propagates.
HookDeleteAllRethrows(c) ==
  /\ calls[c].pc = "hookDeleteAll"
  /\ calls' = [calls EXCEPT ![c] =
       [calls[c] EXCEPT !.pc = "raised", !.ops = 1,
                        !.err = [kind |-> "RegistryUnavailable", issues |-> {}]]]
  /\ UNCHANGED <<registry, nextJobId, clock, cfg, production, globalPrisma, deliv, enqueued>>

\* await client.deleteAll() is rejected: the catch clause logs the error
\* (err keeps what was logged) and the hook goes on.
HookDeleteAllFails(c) ==
  /\ calls[c].pc = "hookDeleteAll"
  /\ calls' = [calls EXCEPT ![c] =
       [calls[c] EXCEPT !.pc = "hookClose", !.ops = 1,
                        !.err = Error("RegistryUnavailable")]]
  /\ UNCHANGED <<registry, nextJobId, clock, cfg, production, globalPrisma, deliv, enqueued>>

\* await cronDetector.close() settles; a rejection is swallowed by catch {}.
HookClose(c) ==
  /\ calls[c].pc = "hookClose"
  /\ calls' = [calls EXCEPT ![c] = [calls[c] EXCEPT !.pc = "hookExit"]]
  /\ UNCHANGED <<registry, nextJobId, clock, cfg, production, globalPrisma, deliv, enqueued>>

\* process.exit(): the process of client c is gone and takes no further step.
ProcessExit(c) ==
  /\ calls[c].pc = "hookExit"
  /\ calls' = [calls EXCEPT ![c] = [calls[c] EXCEPT !.pc = "exited"]]
  /\ UNCHANGED <<registry, nextJobId, clock, cfg, production, globalPrisma, deliv, enqueued>>

\* The application (q1) registers jobs while the run command (q2) is shut down.
NextShutdown ==
  \/ \E payload \in {EmptyObj, Obj("foo")}, expr \in {CronEveryMinute, CronHourly} :
       EnqueueCall("q1", payload, CronOptions(expr), clock)
  \/ EnqueueDeleteExisting("q1")
  \/ EnqueueSchedule("q1")
  \/ EnqueueGetById("q1")
  \/ RegistryError("q1")
  \/ Return("q1")
  \/ ShutdownHook("q2")
  \/ HookDeleteAll("q2")
  \/ HookDeleteAllFails("q2")
  \/ HookClose("q2")
  \/ ProcessExit("q2")

\* Every awaited promise of the hook settles, and the statement after it runs.
SpecShutdown ==
  /\ InitNorm
  /\ [][NextShutdown]_vars
  /\ WF_vars(HookDeleteAll("q2") \/ HookDeleteAllFails("q2"))
  /\ WF_vars(HookClose("q2"))
  /\ WF_vars(ProcessExit("q2"))

\* ------------------------------------------------------------------ claims

\* The enqueue call of client c has had cron.schedule answered.
Scheduled(c) == calls[c].op = "enqueue" /\ calls[c].jobId # 0

C2_UniqueNames ==
  \A r1, r2 \in registry :
    (r1.jobname = r2.jobname /\ r1.username = r2.username) => r1 = r2

\* Two enqueue calls under one name are past their deleteExisting and the
\* first has created the row the second's cron.schedule will meet.
C2_Witness ==
  \E c, d \in Clients :
    /\ c # d
    /\ calls[c].pc = "getById" /\ calls[d].pc = "schedule"
    /\ calls[c].jobName = calls[d].jobName
    /\ calls[c].cronSchedule # calls[d].cronSchedule
    /\ Named(registry, calls[d].jobName) # {}

\* No enqueue under the name n is between its deleteExisting and its return.
Quiescent(n) ==
  \A d \in Clients :
    ~(calls[d].op = "enqueue" /\ calls[d].jobName = n
      /\ calls[d].pc \in {"deleteExisting", "schedule", "getById"})

\* C3 (SpecConc): with enqueue calls running concurrently, a reader never
\* sees two rows under one name; and once every enqueue under a name has
\* finished, exactly one row exists under it, carrying the schedule of the
\* enqueue call that scheduled it last.
C3_SerialEffect ==
  \A c \in Clients :
    LET n == calls[c].jobName IN
      /\ Cardinality(Named(registry, JobName(cfg[c].route))) <= 1
      /\ (Scheduled(c) /\ Quiescent(n)) =>
           \E r \in registry :
             /\ Named(registry, n) = {r}
             /\ enqueued[r.jobid].jobName = n
             /\ r.schedule = enqueued[r.jobid].cronSchedule
             /\ r.schedule \in {CronEveryMinute, CronHourly}

\* Two enqueue calls under one name have both finished after running
\* interleaved: neither found a row to delete, and the second one's
\* cron.schedule met the row of the first.
C3_Witness ==
  \E c, d \in Clients :
    /\ c # d
    /\ Scheduled(c) /\ Scheduled(d)
    /\ calls[c].pc = "returned" /\ calls[d].pc = "returned"
    /\ calls[c].jobName = calls[d].jobName
    /\ calls[c].cronSchedule # calls[d].cronSchedule
    /\ calls[c].count = 0 /\ calls[d].count = 0
    /\ calls[c].jobId = calls[d].jobId

\* C4 (Spec): an enqueue that fails on a route that had a registered row
\* leaves a row under that name.
C4_NoPartialRegistration ==
  \A c \in Clients :
    (calls[c].op = "enqueue" /\ calls[c].pc = "raised" /\ calls[c].prev # {}) =>
      Named(registry, JobName(cfg[c].route)) # {}

\* The options set both repeat and a non-empty retry list.
Conflicting(options) ==
  options.repeat.given /\ options.retry.given /\ Len(options.retry.list) > 0

\* C5 as claimed (SpecNorm): every enqueue whose options set both repeat and
\* a non-empty retry fails with the conflicting-schedule error and issues no
\* registry operation.
C5_ConflictAlways ==
  \A c \in Clients :
    (calls[c].op = "enqueue" /\ Conflicting(calls[c].options)) =>
      /\ calls[c].pc = "raised"
      /\ calls[c].err = Error("ConflictingSchedule")
      /\ calls[c].ops = 0

\* C5 as amended (SpecNorm): every enqueue of a payload that is not undefined
\* whose options set both repeat and a non-empty retry fails with the
\* conflicting-schedule error and issues no registry operation (an undefined
\* payload is reported first).
C5_ConflictWithPayload ==
  \A c \in Clients :
    (/\ calls[c].op = "enqueue"
     /\ calls[c].payload.k # "undefined"
     /\ Conflicting(calls[c].options)) =>
      /\ calls[c].pc = "raised"
      /\ calls[c].err = Error("ConflictingSchedule")
      /\ calls[c].ops = 0

\* An enqueue with repeat and retry has failed on a registry that holds a row.
C5_Witness ==
  \E c \in Clients :
    /\ calls[c].op = "enqueue"
    /\ calls[c].payload.k # "undefined"
    /\ Conflicting(calls[c].options)
    /\ calls[c].options.repeat.cron.given
    /\ calls[c].err = Error("ConflictingSchedule")
    /\ registry # {}

\* The runAt of the options is earlier than the clock read at validation.
PastRunAt(call) == call.options.runAt.given /\ call.options.runAt.t < call.nowV

\* C6 as claimed (SpecNorm): every enqueue whose runAt is earlier than the
\* time of validation fails with the schedule-in-past error and issues no
\* registry operation.
C6_PastRunAtAlways ==
  \A c \in Clients :
    (calls[c].op = "enqueue" /\ PastRunAt(calls[c])) =>
      /\ calls[c].pc = "raised"
      /\ "runAt must not be in the past" \in calls[c].err.issues
      /\ calls[c].ops = 0

\* C6 as amended (SpecNorm): every enqueue of a payload that is not undefined,
\* whose options do not set both repeat and a non-empty retry and whose runAt
\* is earlier than the time of validation, fails with a validation error that
\* reports the past runAt, and issues no registry operation.
C6_PastRunAtValidated ==
  \A c \in Clients :
    (/\ calls[c].op = "enqueue"
     /\ calls[c].payload.k # "undefined"
     /\ ~Conflicting(calls[c].options)
     /\ PastRunAt(calls[c])) =>
      /\ calls[c].pc = "raised"
      /\ calls[c].err.kind = "ZodError"
      /\ "runAt must not be in the past" \in calls[c].err.issues
      /\ calls[c].ops = 0

\* An enqueue with a cron schedule and a past runAt has failed on a registry
\* that holds a row.
C6_Witness ==
  \E c \in Clients :
    /\ calls[c].op = "enqueue"
    /\ PastRunAt(calls[c])
    /\ calls[c].options.repeat.cron.given
    /\ calls[c].err = ZodError({"runAt must not be in the past"})
    /\ registry # {}

\* C7 (SpecNorm): the delay of every option set that passes validation is
\* not negative.
C7_DelayNotNegative ==
  \A c \in Clients :
    (/\ calls[c].op = "enqueue"
     /\ calls[c].err.kind \notin {"MissingPayload", "ConflictingSchedule", "ZodError"}
     /\ calls[c].body.delay.def) =>
      calls[c].body.delay.n >= 0

\* C8 (SpecRespond): in production mode the handler is invoked only for a
\* delivery whose signature header is present and is the signature of the
\* body under the client's token; a delivery without the header is answered
\* 401 "Signature missing", one with any other signature 401 "Signature
\* invalid", neither reaches the handler and respondTo raises for neither.
C8_ProductionGate ==
  production =>
    LET valid == deliv.signature = sign(deliv.body, cfg[deliv.client].token)
        past == deliv.pc \notin {"idle", "received"}
    IN /\ deliv.invoked > 0 => (deliv.signature.k # "absent" /\ valid)
       /\ (past /\ deliv.signature.k = "absent") =>
            /\ deliv.pc = "responded"
            /\ deliv.response = Response(401, <<"Signature missing">>)
            /\ deliv.invoked = 0
       /\ (past /\ deliv.signature.k # "absent" /\ ~valid) =>
            /\ deliv.pc = "responded"
            /\ deliv.response = Response(401, <<"Signature invalid">>)
            /\ deliv.invoked = 0

\* In production a delivery signed under another token has been answered 401.
C8_Witness ==
  /\ production
  /\ deliv.pc = "responded"
  /\ deliv.signature = sign(deliv.body, "t2")
  /\ deliv.response = Response(401, <<"Signature invalid">>)

\* C9 (SpecRespond): the handler is invoked at most once for a delivery; once
\* it is invoked respondTo does not raise; it answers 200 "OK" when the
\* handler returns and 500 with the stringified error when it raises.
C9_HandlerOutcome ==
  /\ deliv.invoked <= 1
  /\ deliv.invoked = 1 => deliv.pc \in {"handling", "responded"}
  /\ (deliv.invoked = 1 /\ deliv.pc = "responded") =>
       IF deliv.handlerError = ""
       THEN deliv.response = Response(200, <<"OK">>)
       ELSE deliv.response = Response(500, StringOf(deliv.handlerError))

\* The handler of a delivery has raised and the delivery was answered 500.
C9_Witness ==
  /\ deliv.pc = "responded"
  /\ deliv.invoked = 1
  /\ deliv.handlerError = "boom"
  /\ deliv.response.status = 500

\* C10 (SpecSeq): with an encryption secret configured, the delivery of the
\* body the registry holds for a job, validly signed, hands the handler the
\* payload the job was enqueued with and is answered 200 "OK" (when the
\* handler returns).
C10_EncryptedRoundTrip ==
  (/\ deliv.job # 0
   /\ Encryptor(deliv.client).on
   /\ deliv.handlerError = ""
   /\ deliv.pc \in {"responded", "raised"}) =>
    /\ deliv.pc = "responded"
    /\ deliv.response = Response(200, <<"OK">>)
    /\ deliv.handlerPayload = deliv.expected

\* The secrets client c is configured with.
Secrets(c) == {cfg[c].encryptionSecret} \cup
              {cfg[c].oldSecrets[i] : i \in 1..Len(cfg[c].oldSecrets)}

\* C11 (SpecRotate): an enqueue encrypts the payload under the client's active
\* secret; the encryptor is handed the active secret first and then the
\* retired secrets in their order; a ciphertext produced under the active
\* secret or, after a rotation, under a secret now retired decrypts to the
\* payload that was encrypted; a ciphertext under a secret that is not
\* configured does not decrypt (respondTo raises, or the installed
\* catchDecryptionErrors receives the error).
C11_RotationRoundTrip ==
  /\ \A c \in Clients :
       /\ Encryptor(c).keys = <<cfg[c].encryptionSecret>> \o cfg[c].oldSecrets
       /\ (calls[c].op = "enqueue" /\ calls[c].body.body.k = "string") =>
            calls[c].body.body = Cipher(cfg[c].encryptionSecret, calls[c].payload.v)
  /\ (deliv.body.form = "enc" /\ deliv.pc \in {"decrypted", "handling", "responded", "raised"}) =>
       IF deliv.body.key \in Secrets(deliv.client)
       THEN /\ deliv.pc # "raised"
            /\ deliv.caught = 0
            /\ deliv.payload = deliv.expected
       ELSE IF cfg[deliv.client].catchDecryptionErrors
       THEN deliv.caught = 1
       ELSE deliv.pc = "raised" /\ deliv.err = Error("DecryptionFailed")

\* After the rotation (active secret k1, k0 retired) a ciphertext produced
\* under k0 has been decrypted to the payload and handed to the handler.
C11_Witness ==
  /\ deliv.pc = "responded"
  /\ deliv.body = Cipher("k0", "foo")
  /\ cfg[deliv.client].encryptionSecret = "k1"
  /\ deliv.handlerPayload = Obj("foo")
  /\ deliv.expected = Obj("foo")

\* C12 (SpecRespond): with an encryption secret configured the handler is
\* never invoked with the inbound body itself, undecrypted, as its payload.
C12_NeverPlaintext ==
  (Encryptor(deliv.client).on /\ deliv.invoked > 0) =>
    deliv.handlerPayload # deliv.body

Matching(c) ==
  IF calls[c].pc = "deleteCron"
  THEN {r \in registry : r.jobname = JobName(cfg[c].route)}
  ELSE {r \in registry : r.jobid = calls[c].id}

\* C14 (Spec): the registry call of delete(id) removes exactly the rows that
\* match (for a number the row with that jobid, for "@cron" the rows under
\* the route's name) and delete returns true exactly when there was such a
\* row; without one it returns false and the registry is unchanged.
C14_DeleteResult ==
  [][\A c \in Clients :
       (calls[c].pc \in {"deleteCron", "deleteMany"} /\ calls'[c].pc = "returned") =>
         /\ registry' = registry \ Matching(c)
         /\ calls'[c].result = (Matching(c) # {})
         /\ Matching(c) = {} => registry' = registry]_vars

\* A delete by number has returned true and a row that did not match is
\* still registered.
C14_Witness ==
  \E c \in Clients :
    /\ calls[c].op = "delete"
    /\ calls[c].pc = "returned"
    /\ calls[c].result
    /\ calls[c].id > 1
    /\ \E r \in registry : r.jobid < calls[c].id

\* C15 (Spec): a deleteAll that removed n registered jobs returns n, and no
\* job is registered when it returns.
C15_DeleteAllCount ==
  \A c \in Clients :
    (calls[c].op = "deleteAll" /\ calls[c].pc = "returned" /\ calls[c].count > 0) =>
      /\ calls[c].ret = Val(calls[c].count)
      /\ registry = {}

\* C16 (SpecShutdown): once the cleanup hook is invoked the process
\* eventually exits, whether deleteAll succeeds or fails; a failure of
\* deleteAll never leaves the hook as a raised error.
C16_ShutdownCompletes ==
  /\ [](calls["q2"].op = "shutdown" => calls["q2"].pc # "raised")
  /\ (calls["q2"].op = "shutdown") ~> (calls["q2"].pc = "exited")

\* The process has exited after a deleteAll that failed and was logged,
\* with a job still registered.
C16_Witness ==
  /\ calls["q2"].pc = "exited"
  /\ calls["q2"].err = Error("RegistryUnavailable")
  /\ registry # {}

\* C17 (SpecNorm): an enqueue of a defined payload whose options pass
\* validation and set a delay, a runAt or a retry list but no cron
\* expression does not fail: it goes on to register a job.
C17_NonCronRegisters ==
  \A c \in Clients :
    (/\ calls[c].op = "enqueue"
     /\ calls[c].payload.k # "undefined"
     /\ calls[c].err.kind \notin {"MissingPayload", "ConflictingSchedule", "ZodError"}
     /\ ~(calls[c].options.repeat.given /\ calls[c].options.repeat.cron.given)
     /\ \/ calls[c].options.delay.t # "absent"
        \/ calls[c].options.runAt.given
        \/ calls[c].options.retry.given) =>
      calls[c].pc # "raised"

\* C18 (SpecEngine): every delivery the engine fires for a registered job
\* carries a signature that verifies for the delivered body under the
\* client's token, and a responder in production never answers it 401.
C18_EngineAuthenticated ==
  deliv.job # 0 =>
    /\ verify(deliv.body, cfg[deliv.client].token, deliv.signature)
    /\ production => deliv.response.status # 401

\* C19 (SpecSeq): an enqueue whose options do not set override to true, made
\* while a job is registered under its name, leaves that job as it is.
C19_OverrideDefault ==
  \A c \in Clients :
    (/\ calls[c].op = "enqueue"
     /\ ~(calls[c].options.override.given /\ calls[c].options.override.b)
     /\ calls[c].prev # {}
     /\ calls[c].pc \in {"schedule", "getById", "returned"}) =>
      {r.schedule : r \in Named(registry, calls[c].jobName)} = calls[c].prev

\* C20 (SpecNorm): a validation failure of enqueue happens before any
\* registry operation and reports the first violated rule alone: the absent
\* payload before the conflict of repeat with retry, the conflict before the
\* rules of the schema, and of the rules of the schema one only.
C20_FirstRuleOnly ==
  \A c \in Clients :
    (/\ calls[c].op = "enqueue"
     /\ calls[c].err.kind \in {"MissingPayload", "ConflictingSchedule", "ZodError"}) =>
      /\ calls[c].ops = 0
      /\ calls[c].payload.k = "undefined" => calls[c].err.kind = "MissingPayload"
      /\ (calls[c].payload.k # "undefined" /\ Conflicting(calls[c].options)) =>
           calls[c].err.kind = "ConflictingSchedule"
      /\ calls[c].err.kind = "ZodError" => Cardinality(calls[c].err.issues) = 1

\* The body of the delivery is a string that the encryptor of the receiving
\* client cannot decrypt.
DecryptionFails ==
  /\ Encryptor(deliv.client).on
  /\ deliv.body.k = "string"
  /\ deliv.body # EmptyString
  /\ ~Decrypt(Encryptor(deliv.client), deliv.body).ok

\* respondTo has got past its call of decryptAndDecodeBody, or was ended by it.
PastDecryption ==
  \/ deliv.pc \in {"decrypted", "handling", "raised"}
  \/ deliv.pc = "responded" /\ deliv.response.status # 401

\* C21 (SpecRespond): when the decryption of a delivery's body fails and
\* catchDecryptionErrors is installed, it is called once and respondTo is not
\* ended by the failure; when it is not installed the failure is raised to
\* the caller and the handler is not invoked; without a failure
\* catchDecryptionErrors is not called.
C21_DecryptionFailureRouting ==
  PastDecryption =>
    IF DecryptionFails
    THEN IF cfg[deliv.client].catchDecryptionErrors
         THEN deliv.caught = 1 /\ deliv.err # Error("DecryptionFailed")
         ELSE /\ deliv.pc = "raised"
              /\ deliv.err = Error("DecryptionFailed")
              /\ deliv.caught = 0
              /\ deliv.invoked = 0
    ELSE deliv.caught = 0 /\ deliv.err # Error("DecryptionFailed")

\* A delivery whose body no configured secret decrypts was reported to
\* catchDecryptionErrors and answered by respondTo all the same.
C21_Witness ==
  /\ DecryptionFails
  /\ deliv.body = Cipher("kx", "foo")
  /\ deliv.caught = 1
  /\ deliv.pc = "responded"
  /\ deliv.invoked = 1

\* The delivery passes the signature check of respondTo, and its body the
\* decoding.
Admitted ==
  /\ production => verify(deliv.body, cfg[deliv.client].token, deliv.signature)
  /\ decryptAndDecodeBody(deliv.body, Encryptor(deliv.client),
                          cfg[deliv.client].catchDecryptionErrors).err = NoError

\* C22 as claimed (SpecRespond): every delivery without the metadata header
\* ends with the handler invoked, all fields of its metadata undefined, and a
\* response returned.
C22_AbsentMetaAlways ==
  (deliv.meta.k = "absent" /\ deliv.pc \in {"responded", "raised"}) =>
    /\ deliv.pc = "responded"
    /\ deliv.invoked = 1
    /\ deliv.handlerMeta = NoMeta

\* C22 as amended (SpecRespond): every delivery without the metadata header
\* that passes the signature check and whose body decodes has the handler
\* invoked with all fields of its metadata undefined, and ends with a
\* response returned, never with respondTo raising.
C22_AbsentMetaAdmitted ==
  (/\ deliv.meta.k = "absent"
   /\ Admitted
   /\ deliv.pc \in {"handling", "responded", "raised"}) =>
    /\ deliv.pc # "raised"
    /\ deliv.invoked = 1
    /\ deliv.handlerMeta = NoMeta

\* A delivery without the metadata header was handled and answered 200.
C22_Witness ==
  /\ deliv.meta.k = "absent"
  /\ deliv.pc = "responded"
  /\ deliv.invoked = 1
  /\ deliv.handlerMeta = NoMeta
  /\ deliv.response = Response(200, <<"OK">>)

\* C23 (SpecList): get() ends after one batch; the batch holds each row
\* registered under the route's name once and no row of another name, and
\* get() does not change the registry.
C23_Listing ==
  [][\A c \in Clients :
       (calls[c].pc = "findMany" /\ calls'[c].pc = "returned") =>
         LET named == {r \in registry : r.jobname = JobName(cfg[c].route)}
             batch == calls'[c].batch
         IN /\ registry' = registry
            /\ calls'[c].batches = 1
            /\ {batch[i].id : i \in 1..Len(batch)} = {r.jobid : r \in named}
            /\ Len(batch) = Cardinality(named)]_vars

\* A listing has returned one job while the registry holds a row of
\* another name as well.
C23_Witness ==
  \E c \in Clients :
    /\ calls[c].op = "get"
    /\ calls[c].pc = "returned"
    /\ Len(calls[c].batch) = 1
    /\ \E r \in registry : r.jobname # calls[c].jobName
    /\ \E r \in registry : r.jobname = calls[c].jobName /\ r.jobid = calls[c].batch[1].id

\* C24 (SpecConn): once the shared connection handle is built no step builds
\* another, whatever client accesses it and in whatever order; a registry
\* call of a client without a database url raises, builds nothing and leaves
\* the registry as it is.
C24_SingleConnection ==
  [][/\ globalPrisma # NoPrisma => globalPrisma' = globalPrisma
     /\ \A c \in Clients :
          (/\ cfg[c].databaseUrl = NoPrisma
           /\ calls[c].pc \notin {"idle", "returned", "raised"}
           /\ calls'[c] # calls[c]) =>
            /\ calls'[c].pc = "raised"
            /\ calls'[c].err = Error("MissingDatabaseUrl")
            /\ globalPrisma' = globalPrisma
            /\ registry' = registry]_vars

\* Both clients have completed registry calls on the one handle, which the
\* first of them built.
C24_Witness ==
  /\ globalPrisma = "db1"
  /\ cfg["q2"].databaseUrl = "db2"
  /\ calls["q2"].pc = "returned"
  /\ calls["q2"].ops > 0
  /\ calls["q1"].pc = "returned"
  /\ calls["q1"].ops > 0

\* The call is an enqueue without a cron expression, an enqueueMany or an
\* invoke.
UnsupportedCall(call) ==
  \/ call.op \in {"enqueueMany", "invoke"}
  \/ call.op = "enqueue" /\ ~(call.options.repeat.given /\ call.options.repeat.cron.given)

C26_ExclusiveCarried ==
  /\ \A c \in Clients :
       /\ (calls[c].op = "enqueue" /\ calls[c].pc = "returned") =>
            calls[c].job.exclusive = Flag(TRUE)
       /\ (calls[c].op = "get" /\ calls[c].pc = "returned") =>
            \A i \in 1..Len(calls[c].batch) : calls[c].batch[i].exclusive = Flag(TRUE)
  /\ (deliv.job # 0 /\ deliv.invoked = 1) => deliv.handlerMeta.exclusive = Flag(TRUE)

\* C27 (Spec): the registry call of a deleteAll removes no row that another
\* client registered.
C27_DeleteAllFrame ==
  [][\A c \in Clients :
       (calls[c].pc = "deleteAll" /\ calls'[c].pc = "returned") =>
         \A r \in registry : enqueued[r.jobid].owner # c => r \in registry']_vars

\* C28 (SpecList): no step of an enqueue, a get or a delete("@cron") of a
\* client removes or replaces a row that was registered for another route,
\* or lists it.
C28_RouteIsolation ==
  [][\A c \in Clients :
       calls'[c] # calls[c] =>
         \A r \in registry :
           LET owner == enqueued[r.jobid].owner
           IN (owner # "" /\ cfg[owner].route # cfg[c].route) =>
                /\ r \in registry'
                /\ \A i \in 1..Len(calls'[c].batch) : calls'[c].batch[i].id # r.jobid]_vars

\* C29 (SpecConn): a client that has issued a registry operation has issued
\* it on a connection to the database url it was configured with.
C29_ConnectionMatchesConfig ==
  \A c \in Clients :
    calls[c].ops > 0 => globalPrisma = cfg[c].databaseUrl
====
